---- MODULE Spec2Model ----
(***************************************************************************)
(* The book spider of leivermoreno/scraping: the rate-limited, batched     *)
(* fetch-and-extract pipeline.  Two variants of the same program exist:    *)
(*   "modular"    : src/book-spider/utils.py + src/book-spider/book_spider.py *)
(*   "monolithic" : src/book spider/book_spider.py                         *)
(* One asyncio event loop runs the main coroutine (main ->                 *)
(* execute_with_interval -> get_books -> execute_batch_with_interval) and  *)
(* the Tasks that asyncio.gather creates for the coroutines of a batch.    *)
(* A step of the model is what one coroutine does between two suspension   *)
(* points (asyncio.sleep, an HTTP round trip, awaiting the gather future). *)
(***************************************************************************)
EXTENDS Integers, Sequences, FiniteSets, TLC

\* ---------------------------------------------------------------- bounds
\* range(1, 51) of main, scaled down: the listing pages are 1..MaxPages.
MaxPages == 2
\* The most links scrape_book_links finds on one listing page.
MaxLinks == 4
\* batch_size is drawn from 1..MaxBatch (BATCH_SIZE is 10 in the program).
MaxBatch == 2
\* How many empty batches a call with batch_size <= 0 is followed through.
MaxSpins == 3

\* ------------------------------------------------------ program constants
SLEEP_TIME == 2

\* AsyncHTTPTransport(retries=1)
RETRIES == 1

\* The seconds arguments the functions are exercised with: the falsy 0, the
\* rejected 1 and the program's own SLEEP_TIME.  The program passes
\* SLEEP_TIME at every call site; the functions take any value.
SecondsValues == {0, 1, SLEEP_TIME}

VARIABLES
    variant,      \* which of the two programs runs
    secMain,      \* seconds given to execute_with_interval by main
    secBatch,     \* seconds given to execute_batch_with_interval by get_books
    secReq,       \* seconds given to make_request by get_book_data: <<>> is None
    batch_size,   \* batch_size given to execute_batch_with_interval
    pc,           \* where the main coroutine is suspended
    page,         \* listing pages taken from main's generator so far
    nlinks,       \* links scraped from the current listing page
    linkCounts,   \* links scraped from each listing page so far (history)
    taken,        \* tasks taken from task_iter by the current batched call
    batch,        \* the batch list of the current loop iteration (task ids)
    stopped,      \* StopIteration was raised while filling the current batch
    tstate,       \* state of each detail task of the current listing page
    tres,         \* result slot of each detail task (<<>> while it has none)
    finishOrder,  \* tasks of the current batch in the order they finished
    bresults,     \* results of execute_batch_with_interval
    bdelays,      \* delays sampled by the current execute_batch_with_interval
    results,      \* results of execute_with_interval
    delays,       \* asyncio.sleep calls made in the whole run
    fetches,      \* client.get requests sent in the whole run
    err,          \* the exception that reached main ("none" while there is none)
    writes,       \* to_csv calls
    output,       \* what to_csv was given
    listingStatus,\* status of the response make_request gave get_books
    tries,        \* connection attempts of each pending request (0: listing)
    retried,      \* a detail request of the current page was retried
    pdelays,      \* delays sampled by execute_with_interval
    tdelays,      \* delays sampled by make_request for the current page
    nstart,       \* how often each detail task was started
    nend          \* how often each detail task ended

vars == <<variant, secMain, secBatch, secReq, batch_size, pc, page, nlinks,
          linkCounts, taken, batch, stopped, tstate, tres, finishOrder,
          bresults, bdelays, results, delays, fetches, err, writes, output,
          listingStatus, tries, retried, pdelays, tdelays, nstart, nend>>

Variants == {"modular", "monolithic"}

\* The seconds argument of make_request(..., delay=True, seconds): the
\* modular get_book_data passes one (the parameter defaults to None, <<>>);
\* the monolithic get_book_data passes none and the parameter defaults to
\* SLEEP_TIME (<<>> again: the default is taken).
RequestSeconds(v) ==
    IF v = "modular" THEN {<<>>} \cup {<<s>> : s \in SecondsValues}
    ELSE {<<>>}

Tasks == 1..MaxLinks

\* The requests of a listing page: 0 is the listing request of get_books,
\* j >= 1 the request of detail task j.
Requests == 0..MaxLinks

\* A detail task is: not yet produced by the generator ("none"); a coroutine
\* object in the batch list ("created"); wrapped in a Task by asyncio.gather
\* and scheduled ("sched"); in the asyncio.sleep of make_request ("sleep");
\* waiting for the HTTP response ("fetch"); finished.
FailStates == {"ValueError", "HTTPError", "ExtractionError"}

Running == {"sched", "sleep", "fetch"}

Begun == {"sleep", "fetch", "done"} \cup FailStates

Min(a, b) == IF a <= b THEN a ELSE b

\* The record scrape_book_details returns for link j of listing page p.
Record(p, j) == <<p, j>>

\* Mutant of SleepAndExecuteRaises: the check written `seconds < 1`.
SleepAndExecuteRaisesAtTwo(v, s) == v = "modular" /\ s <= 2

SleepAndExecuteRaisesBelowOne(v, s) == v = "modular" /\ s < 1

\* sleep_and_execute: if seconds <= 1: raise ValueError.  The monolithic
\* program calls asyncio.sleep(random.uniform(1, seconds)) unchecked.
SleepAndExecuteRaises(v, s) == v = "modular" /\ s <= 1

\* make_request(delay=True, seconds): `if delay and not seconds` (None or 0),
\* then sleep_and_execute's own check.  The monolithic make_request has no
\* check and a default of SLEEP_TIME.
MakeRequestRaises(v, sr) ==
    /\ v = "modular"
    /\ \/ sr = <<>>
       \/ sr # <<>> /\ sr[1] = 0
       \/ sr # <<>> /\ sr[1] # 0 /\ SleepAndExecuteRaises(v, sr[1])

\* Mutant of NoMorePages: the loop ends one page early.
NoMorePagesEarly(p) == p >= MaxPages - 1

\* Mutant of MakeRequestSleeps: the delay flag is ignored.
MakeRequestSleepsNever(delay) == 0

\* make_request: asyncio.sleep calls it makes (one inside sleep_and_execute
\* when delay is set).
MakeRequestSleeps(delay) == IF delay THEN 1 ELSE 0

\* make_request returns `await request` as it is: there is no
\* raise_for_status, a non-success response raises nothing.
RaisesForStatus == FALSE

\* Mutant of MayRetry: AsyncHTTPTransport(retries=2).
MayRetryTwice(t) == t <= RETRIES + 1

\* AsyncHTTPTransport(retries=1): a failed connection is tried again while
\* at most RETRIES retries were made (attempt t is the (t-1)-th retry).
MayRetry(t) == t <= RETRIES

\* for task in tasks: the generator of main is exhausted after MaxPages.
NoMorePages(p) == p = MaxPages

\* Mutant of BatchLen: range(max(1, batch_size)).
BatchLenAtLeastOne(bs, remaining) ==
    Min(IF bs <= 0 THEN 1 ELSE bs, remaining)

\* Mutant of BatchLen: the loop runs once too often, range(batch_size + 1).
BatchLenOneMore(bs, remaining) == Min(bs + 1, remaining)

\* for _ in range(batch_size): batch.append(next(task_iter)): how many tasks
\* the loop appends when `remaining` tasks are left in the iterator
\* (range of a batch_size <= 0 is empty).
BatchLen(bs, remaining) == IF bs <= 0 THEN 0 ELSE Min(bs, remaining)

\* Mutant of BatchTasks: every batch is read from the start of the input.
BatchTasksFromStart(done, n) == [k \in 1..n |-> k]

\* The tasks next(task_iter) yields for a batch of n after `done` were taken.
BatchTasks(done, n) == [k \in 1..n |-> done + k]

\* next(task_iter) raises StopIteration inside the for loop.
RaisesStopIteration(bs, remaining) == remaining < bs

\* Mutant of BatchIsEmpty: the except branch without its `if batch:`.
BatchIsEmptyUnchecked(b) == FALSE

\* `if batch:` in the except StopIteration branch.
BatchIsEmpty(b) == b = <<>>

\* Mutant of OnException: execute_with_interval catches the exception of a
\* task and goes on with the next one.
OnExceptionSwallowed == "ewi"

\* No function between the failing await and asyncio.run has a handler
\* (the only except clause is `except StopIteration`): the main coroutine
\* ends with the exception.
OnException == "failed"

\* Mutant of AllDone: the await waits for every task of the input.
AllDoneEveryTask(b) == \A j \in Tasks : tstate[j] = "done"

\* Mutant of AllDone: the await returns at the first completion
\* (asyncio.wait with FIRST_COMPLETED instead of asyncio.gather).
AllDoneFirstCompleted(b) == \E k \in 1..Len(b) : tstate[b[k]] = "done"

\* Mutant of AllDone: asyncio.gather(*batch, return_exceptions=True), which
\* is done when every task has ended, exceptions being results.
AllDoneOrRaised(b) ==
    \A k \in 1..Len(b) : tstate[b[k]] \in {"done"} \cup FailStates

\* asyncio.gather(*batch) is done when every task of the batch is done...
AllDone(b) == \A k \in 1..Len(b) : tstate[b[k]] = "done"

\* ... and raises as soon as one of them has raised.
SomeFailed(b) == \E k \in 1..Len(b) : tstate[b[k]] \in FailStates

\* The exception asyncio.gather raises: that of the first task that raised.
FirstException(order) ==
    LET k == CHOOSE i \in 1..Len(order) :
                 /\ tstate[order[i]] \in FailStates
                 /\ \A h \in 1..(i - 1) : tstate[order[h]] \notin FailStates
    IN  tstate[order[k]]

\* Mutant of GatherResults: the results in the order of completion
\* (asyncio.as_completed instead of asyncio.gather).
GatherResultsAsCompleted(b) == [k \in 1..Len(b) |-> tres[finishOrder[k]]]

\* The list asyncio.gather returns: the results in the order of its arguments.
GatherResults(b) == [k \in 1..Len(b) |-> tres[b[k]]]

\* Mutant of Flatten: the pages are chained last to first.
RECURSIVE FlattenReversed(_)
FlattenReversed(rs) ==
    IF rs = <<>> THEN <<>> ELSE FlattenReversed(Tail(rs)) \o Head(rs)

\* chain.from_iterable(results)
RECURSIVE Flatten(_)
Flatten(rs) == IF rs = <<>> THEN <<>> ELSE Head(rs) \o Flatten(Tail(rs))

\* The state when asyncio.run(main()) starts, the batch size being one of
\* `sizes`.
InitFor(sizes) ==
    /\ variant \in Variants
    /\ secMain \in SecondsValues
    /\ secBatch \in IF variant = "modular" THEN SecondsValues ELSE {secMain}
    /\ secReq \in RequestSeconds(variant)
    /\ batch_size \in sizes
    /\ pc = "ewi"
    /\ page = 0
    /\ nlinks = 0
    /\ linkCounts = <<>>
    /\ taken = 0
    /\ batch = <<>>
    /\ stopped = FALSE
    /\ tstate = [j \in Tasks |-> "none"]
    /\ tres = [j \in Tasks |-> <<>>]
    /\ finishOrder = <<>>
    /\ bresults = <<>>
    /\ bdelays = 0
    /\ results = <<>>
    /\ delays = 0
    /\ fetches = 0
    /\ err = "none"
    /\ writes = 0
    /\ output = <<>>
    /\ listingStatus = "none"
    /\ tries = [r \in Requests |-> 0]
    /\ retried = FALSE
    /\ pdelays = 0
    /\ tdelays = 0
    /\ nstart = [j \in Tasks |-> 0]
    /\ nend = [j \in Tasks |-> 0]

Init == InitFor(1..MaxBatch)

\* ---------------------------------------------------------- main coroutine
\* Mutant of execute_with_interval_next: `result = await task`, without
\* sleep_and_execute.
execute_with_interval_unpaced ==
    /\ pc = "ewi"
    /\ \/ /\ NoMorePages(page)
          /\ pc' = "write"
          /\ UNCHANGED page
       \/ /\ ~NoMorePages(page)
          /\ page' = page + 1
          /\ pc' = "pdelay"
    /\ UNCHANGED <<variant, secMain, secBatch, secReq, batch_size, nlinks,
                   linkCounts, taken, batch, stopped, tstate, tres,
                   finishOrder, bresults, bdelays, results, fetches, writes,
                   output, listingStatus, tries, retried, tdelays, nstart,
                   nend, delays, pdelays, err>>

\* execute_with_interval, the head of `for task in tasks`: the loop ends and
\* main leaves `async with`; or sleep_and_execute rejects seconds; or the
\* delay before the next get_books is sampled.
execute_with_interval_next ==
    /\ pc = "ewi"
    /\ \/ /\ NoMorePages(page)
          /\ pc' = "write"
          /\ UNCHANGED <<page, delays, pdelays, err>>
       \/ /\ ~NoMorePages(page)
          /\ SleepAndExecuteRaises(variant, secMain)
          /\ page' = page + 1
          /\ err' = "ValueError"
          /\ pc' = OnException
          /\ UNCHANGED <<delays, pdelays>>
       \/ /\ ~NoMorePages(page)
          /\ ~SleepAndExecuteRaises(variant, secMain)
          /\ page' = page + 1
          /\ delays' = delays + 1
          /\ pdelays' = pdelays + 1
          /\ pc' = "pdelay"
          /\ UNCHANGED err
    /\ UNCHANGED <<variant, secMain, secBatch, secReq, batch_size, nlinks,
                   linkCounts, taken, batch, stopped, tstate, tres,
                   finishOrder, bresults, bdelays, results, fetches, writes,
                   output, listingStatus, tries, retried, tdelays, nstart,
                   nend>>

\* The delay of execute_with_interval is over: get_books starts and
\* make_request(client, url) sends the listing request.
page_delay_elapsed ==
    /\ pc = "pdelay"
    /\ fetches' = fetches + 1
    /\ delays' = delays + MakeRequestSleeps(FALSE)
    /\ tries' = [r \in Requests |-> IF r = 0 THEN 1 ELSE 0]
    /\ retried' = FALSE
    /\ listingStatus' = "none"
    /\ pc' = "listing"
    /\ UNCHANGED <<variant, secMain, secBatch, secReq, batch_size, page,
                   nlinks, linkCounts, taken, batch, stopped, tstate, tres,
                   finishOrder, bresults, bdelays, results, err,
                   writes, output, pdelays, tdelays, nstart, nend>>

\* get_books enters execute_batch_with_interval with the n links scraped.
EnterBatchedCall(n) ==
    /\ nlinks' = n
    /\ linkCounts' = Append(linkCounts, n)
    /\ taken' = 0
    /\ batch' = <<>>
    /\ stopped' = FALSE
    /\ tstate' = [j \in Tasks |-> "none"]
    /\ tres' = [j \in Tasks |-> <<>>]
    /\ finishOrder' = <<>>
    /\ bresults' = <<>>
    /\ bdelays' = 0
    /\ tdelays' = 0
    /\ nstart' = [j \in Tasks |-> 0]
    /\ nend' = [j \in Tasks |-> 0]
    /\ tries' = [r \in Requests |-> 0]
    /\ pc' = "ebwi"

\* The listing request ends.  The connection failed and the transport tries
\* again; or client.get raises; or the response arrives and make_request
\* returns it whatever its status: scrape_book_links raises, or scrapes the
\* links (none on the page of a non-success response) and
\* execute_batch_with_interval is entered.
listing_response ==
    /\ pc = "listing"
    /\ \/ /\ MayRetry(tries[0])
          /\ tries' = [tries EXCEPT ![0] = @ + 1]
          /\ UNCHANGED <<pc, err, nlinks, linkCounts, taken, batch, stopped,
                         tstate, tres, finishOrder, bresults, bdelays,
                         tdelays, nstart, nend, listingStatus, retried>>
       \/ /\ err' = "HTTPError"
          /\ pc' = OnException
          /\ UNCHANGED <<nlinks, linkCounts, taken, batch, stopped, tstate,
                         tres, finishOrder, bresults, bdelays, tdelays,
                         nstart, nend, listingStatus, tries, retried>>
       \/ /\ err' = "ExtractionError"
          /\ pc' = OnException
          /\ UNCHANGED <<nlinks, linkCounts, taken, batch, stopped, tstate,
                         tres, finishOrder, bresults, bdelays, tdelays,
                         nstart, nend, listingStatus, tries, retried>>
       \/ \E n \in 0..MaxLinks :
          /\ listingStatus' = "success"
          /\ EnterBatchedCall(n)
          /\ UNCHANGED <<err, retried>>
       \/ /\ ~RaisesForStatus
          /\ listingStatus' = "error"
          /\ EnterBatchedCall(0)
          /\ UNCHANGED <<err, retried>>
    /\ UNCHANGED <<variant, secMain, secBatch, secReq, batch_size, page,
                   results, delays, fetches, writes, output,
                   pdelays>>

\* execute_batch_with_interval, the head of `while True`: the batch list is
\* filled.  An empty batch ends the call (the results go to
\* execute_with_interval).  Otherwise the modular program gathers the batch
\* (which schedules its tasks) and calls sleep_and_execute, which rejects
\* seconds or samples the delay; the monolithic program samples the delay.
batch_next ==
    /\ pc = "ebwi"
    /\ LET n == BatchLen(batch_size, nlinks - taken)
           b == BatchTasks(taken, n)
           stop == RaisesStopIteration(batch_size, nlinks - taken)
       IN  /\ taken' = taken + n
           /\ batch' = b
           /\ stopped' = stop
           /\ finishOrder' = IF b = <<>> THEN finishOrder ELSE <<>>
           /\ \/ /\ stop
                 /\ BatchIsEmpty(b)
                 /\ results' = Append(results, bresults)
                 /\ pc' = "ewi"
                 /\ UNCHANGED <<tstate, bdelays, delays, err>>
              \/ /\ ~(stop /\ BatchIsEmpty(b))
                 /\ SleepAndExecuteRaises(variant, secBatch)
                 /\ tstate' = [j \in Tasks |->
                                 IF j \in {b[k] : k \in 1..n}
                                 THEN "sched" ELSE tstate[j]]
                 /\ err' = "ValueError"
                 /\ pc' = OnException
                 /\ UNCHANGED <<results, bdelays, delays>>
              \/ /\ ~(stop /\ BatchIsEmpty(b))
                 /\ ~SleepAndExecuteRaises(variant, secBatch)
                 /\ batch_size >= 1 \/ bdelays < MaxSpins
                 /\ tstate' = [j \in Tasks |->
                                 IF j \in {b[k] : k \in 1..n}
                                 THEN (IF variant = "modular"
                                       THEN "sched" ELSE "created")
                                 ELSE tstate[j]]
                 /\ bdelays' = bdelays + 1
                 /\ delays' = delays + 1
                 /\ pc' = "bdelay"
                 /\ UNCHANGED <<results, err>>
    /\ UNCHANGED <<variant, secMain, secBatch, secReq, batch_size, page,
                   nlinks, linkCounts, tres, bresults, fetches, writes,
                   output,
                   listingStatus, tries, retried, pdelays, tdelays, nstart, nend>>

\* The delay of the batch is over.  The monolithic program now calls
\* asyncio.gather(*batch); the modular one awaits the gather it made before.
batch_delay_elapsed ==
    /\ pc = "bdelay"
    /\ tstate' = [j \in Tasks |->
                    IF tstate[j] = "created" THEN "sched" ELSE tstate[j]]
    /\ pc' = "bwait"
    /\ UNCHANGED <<variant, secMain, secBatch, secReq, batch_size, page,
                   nlinks, linkCounts, taken, batch, stopped, tres,
                   finishOrder, bresults, bdelays, results, delays, fetches,
                   err, writes, output,
                   listingStatus, tries, retried, pdelays, tdelays, nstart, nend>>

\* The gather future has its result: results += ...; then the loop goes on,
\* or (in the except StopIteration branch) breaks and the call returns.
gather_done ==
    /\ pc = "bwait"
    /\ AllDone(batch)
    /\ bresults' = bresults \o GatherResults(batch)
    /\ \/ /\ stopped
          /\ results' = Append(results, bresults')
          /\ pc' = "ewi"
       \/ /\ ~stopped
          /\ pc' = "ebwi"
          /\ UNCHANGED results
    /\ UNCHANGED <<variant, secMain, secBatch, secReq, batch_size, page,
                   nlinks, linkCounts, taken, batch, stopped, tstate, tres,
                   finishOrder, bdelays, delays, fetches, err, writes,
                   output,
                   listingStatus, tries, retried, pdelays, tdelays, nstart, nend>>

\* Mutant of gather_failed: the siblings of the failed task are cancelled
\* (as asyncio.TaskGroup does).
gather_failed_cancelling ==
    /\ pc = "bwait"
    /\ SomeFailed(batch)
    /\ err' = FirstException(finishOrder)
    /\ pc' = OnException
    /\ tstate' = [j \in Tasks |->
                    IF tstate[j] \in Running THEN "cancelled" ELSE tstate[j]]
    /\ UNCHANGED <<variant, secMain, secBatch, secReq, batch_size, page,
                   nlinks, linkCounts, taken, batch, stopped, tres,
                   finishOrder, bresults, bdelays, results, delays, fetches,
                   writes, output, listingStatus, tries, retried, pdelays,
                   tdelays, nstart, nend>>

\* The gather future has an exception: it is raised in
\* execute_batch_with_interval, which has no handler for it, nor has
\* get_books, execute_with_interval or main.
gather_failed ==
    /\ pc = "bwait"
    /\ SomeFailed(batch)
    /\ err' = FirstException(finishOrder)
    /\ pc' = OnException
    /\ UNCHANGED <<variant, secMain, secBatch, secReq, batch_size, page,
                   nlinks, linkCounts, taken, batch, stopped, tstate, tres,
                   finishOrder, bresults, bdelays, results, delays, fetches,
                   writes, output,
                   listingStatus, tries, retried, pdelays, tdelays, nstart, nend>>

\* The exception leaves main: `async with` closes the client and
\* asyncio.run cancels the tasks that are still pending.
run_aborted ==
    /\ pc = "failed"
    /\ tstate' = [j \in Tasks |->
                    IF tstate[j] \in Running THEN "cancelled" ELSE tstate[j]]
    /\ pc' = "aborted"
    /\ UNCHANGED <<variant, secMain, secBatch, secReq, batch_size, page,
                   nlinks, linkCounts, taken, batch, stopped, tres,
                   finishOrder, bresults, bdelays, results, delays, fetches,
                   err, writes, output,
                   listingStatus, tries, retried, pdelays, tdelays, nstart, nend>>

\* pd.DataFrame(chain.from_iterable(results)).to_csv("books.csv")
write_output ==
    /\ pc = "write"
    /\ output' = Flatten(results)
    /\ writes' = writes + 1
    /\ pc' = "done"
    /\ UNCHANGED <<variant, secMain, secBatch, secReq, batch_size, page,
                   nlinks, linkCounts, taken, batch, stopped, tstate, tres,
                   finishOrder, bresults, bdelays, results, delays, fetches,
                   err,
                   listingStatus, tries, retried, pdelays, tdelays, nstart, nend>>

\* ------------------------------------------------------ the detail tasks
\* The event loop runs tasks while main is suspended or has just raised.
LoopRuns == pc \in {"bdelay", "bwait", "failed"}

\* The first step of get_book_data: make_request(delay=True) rejects its
\* seconds, or goes to sleep.
task_start(j) ==
    /\ LoopRuns
    /\ tstate[j] = "sched"
    /\ nstart' = [nstart EXCEPT ![j] = @ + 1]
    /\ \/ /\ MakeRequestRaises(variant, secReq)
          /\ tstate' = [tstate EXCEPT ![j] = "ValueError"]
          /\ finishOrder' = Append(finishOrder, j)
          /\ nend' = [nend EXCEPT ![j] = @ + 1]
          /\ UNCHANGED <<delays, tdelays>>
       \/ /\ ~MakeRequestRaises(variant, secReq)
          /\ tstate' = [tstate EXCEPT ![j] = "sleep"]
          /\ delays' = delays + MakeRequestSleeps(TRUE)
          /\ tdelays' = tdelays + MakeRequestSleeps(TRUE)
          /\ UNCHANGED <<finishOrder, nend>>
    /\ UNCHANGED <<variant, secMain, secBatch, secReq, batch_size, pc, page,
                   nlinks, linkCounts, taken, batch, stopped, tres, bresults,
                   bdelays, results, fetches, err, writes, output,
                   listingStatus, tries, retried, pdelays>>

\* The delay of make_request is over: the request is sent.
task_delay_elapsed(j) ==
    /\ LoopRuns
    /\ tstate[j] = "sleep"
    /\ tstate' = [tstate EXCEPT ![j] = "fetch"]
    /\ fetches' = fetches + 1
    /\ tries' = [tries EXCEPT ![j] = 1]
    /\ UNCHANGED <<variant, secMain, secBatch, secReq, batch_size, pc, page,
                   nlinks, linkCounts, taken, batch, stopped, tres,
                   finishOrder, bresults, bdelays, results, delays, err,
                   writes, output,
                   listingStatus, retried, pdelays, tdelays, nstart, nend>>

\* The request ends.  The connection failed and the transport tries again;
\* or the record is scraped; or client.get raises; or scrape_book_details
\* raises (as it does on the page of a non-success response, which
\* make_request returns like any other).
task_response(j) ==
    /\ LoopRuns
    /\ tstate[j] = "fetch"
    /\ \/ /\ MayRetry(tries[j])
          /\ tries' = [tries EXCEPT ![j] = @ + 1]
          /\ retried' = TRUE
          /\ UNCHANGED <<tstate, tres, finishOrder, nend>>
       \/ /\ tstate' = [tstate EXCEPT ![j] = "done"]
          /\ tres' = [tres EXCEPT ![j] = Record(page, j)]
          /\ finishOrder' = Append(finishOrder, j)
          /\ nend' = [nend EXCEPT ![j] = @ + 1]
          /\ tries' = [tries EXCEPT ![j] = 0]
          /\ UNCHANGED retried
       \/ /\ tstate' = [tstate EXCEPT ![j] = "HTTPError"]
          /\ finishOrder' = Append(finishOrder, j)
          /\ nend' = [nend EXCEPT ![j] = @ + 1]
          /\ tries' = [tries EXCEPT ![j] = 0]
          /\ UNCHANGED <<tres, retried>>
       \/ /\ tstate' = [tstate EXCEPT ![j] = "ExtractionError"]
          /\ finishOrder' = Append(finishOrder, j)
          /\ nend' = [nend EXCEPT ![j] = @ + 1]
          /\ tries' = [tries EXCEPT ![j] = 0]
          /\ UNCHANGED <<tres, retried>>
    /\ UNCHANGED <<variant, secMain, secBatch, secReq, batch_size, pc, page,
                   nlinks, linkCounts, taken, batch, stopped, bresults,
                   bdelays, results, delays, fetches, err, writes, output,
                   listingStatus, pdelays, tdelays, nstart>>

Next ==
    \/ execute_with_interval_next
    \/ page_delay_elapsed
    \/ listing_response
    \/ batch_next
    \/ batch_delay_elapsed
    \/ gather_done
    \/ gather_failed
    \/ run_aborted
    \/ write_output
    \/ \E j \in Tasks : task_start(j)
    \/ \E j \in Tasks : task_delay_elapsed(j)
    \/ \E j \in Tasks : task_response(j)

Spec == Init /\ [][Next]_vars

\* Every delay elapses and every request ends: the event loop always runs a
\* step that can be run.
FairSpec == Spec /\ WF_vars(Next)

\* The program with a batch_size of 0 or less.
InitNonPositive == InitFor({-1, 0})

\* The steps it can take: no task is ever taken from the iterator.
NextNonPositive ==
    \/ execute_with_interval_next
    \/ page_delay_elapsed
    \/ listing_response
    \/ batch_next
    \/ batch_delay_elapsed
    \/ gather_done
    \/ run_aborted

SpecNonPositive == InitNonPositive /\ [][NextNonPositive]_vars

\* ------------------------------------------------------------ the claims
\* The batched call made for the latest listing page has returned.
CallReturned == page >= 1 /\ Len(results) = page

CeilDiv(n, d) == (n + d - 1) \div d

\* The batch (1, 2, ...) that task j belongs to.
BatchOf(j) == ((j - 1) \div batch_size) + 1

NumRunning == Cardinality({j \in Tasks : tstate[j] \in Running})

\* C1: every list execute_batch_with_interval has returned has one element
\* per input task, the i-th being the result of the i-th task, whatever the
\* order in which the tasks of a batch finished; the list being built is such
\* a prefix at every moment.
C1_OrderPreserved ==
    /\ \A p \in 1..Len(results) :
          /\ Len(results[p]) = linkCounts[p]
          /\ \A i \in 1..Len(results[p]) : results[p][i] = Record(p, i)
    /\ \A i \in 1..Len(bresults) : bresults[i] = Record(Len(linkCounts), i)

\* A call has returned whose last batch finished in another order than the
\* order of its tasks.
C1_Witness ==
    /\ CallReturned
    /\ pc = "ewi"
    /\ Len(results[page]) >= 2
    /\ Len(finishOrder) = 2
    /\ finishOrder[1] > finishOrder[2]

\* C2: a call over N tasks that has returned sampled exactly
\* ceil(N / batch_size) batch delays: none, and no task touched, for N = 0,
\* and none for the empty chunk after a multiple of batch_size.
C2_DelayCount ==
    /\ CallReturned =>
          /\ bdelays = CeilDiv(nlinks, batch_size)
          /\ nlinks = 0 => \A j \in Tasks : tstate[j] = "none"
    /\ bdelays <= CeilDiv(nlinks, batch_size)

\* A call over twice batch_size tasks has returned after 2 batches.
C2_Witness ==
    /\ CallReturned
    /\ batch_size = 2
    /\ nlinks = 2 * batch_size
    /\ bdelays = 2

\* C3: the batches are consecutive chunks of at most batch_size tasks, every
\* chunk before the last holds exactly batch_size, and at most batch_size
\* tasks are started and unfinished.
C3_BoundedBatches ==
    /\ Len(batch) <= batch_size
    /\ \A k \in 1..Len(batch) : batch[k] = taken - Len(batch) + k
    /\ (taken - Len(batch)) % batch_size = 0
    /\ (batch # <<>> /\ Len(batch) < batch_size) => taken = nlinks
    /\ taken <= nlinks
    /\ NumRunning <= batch_size
    /\ \A j \in Tasks : tstate[j] \in Running =>
          \E k \in 1..Len(batch) : batch[k] = j

\* A full batch that is not the last one runs batch_size tasks at once.
C3_Witness ==
    /\ pc = "bwait"
    /\ batch_size = 2
    /\ taken < nlinks
    /\ NumRunning = batch_size

\* C4: a task of a later batch exists, and the delay of a later batch is
\* sampled, only when every task of every earlier batch is done.
C4_SequentialBatches ==
    /\ \A i, j \in Tasks :
          (BatchOf(i) < BatchOf(j) /\ tstate[j] # "none") => tstate[i] = "done"
    /\ \A i \in Tasks : BatchOf(i) < bdelays => tstate[i] = "done"
    /\ bdelays <= CeilDiv(taken, batch_size)

\* The second batch of a call runs.
C4_Witness ==
    /\ pc = "bwait"
    /\ bdelays = 2
    /\ batch_size = 2
    /\ \E j \in Tasks : BatchOf(j) = 2 /\ tstate[j] \in Running

\* C5 (as claimed): while the delay of a batch has not elapsed, no task of
\* that batch has begun executing.  Stated for the windows the program
\* itself passes (SLEEP_TIME at every call site).
C5_NoTaskBeforeBatchDelay ==
    (/\ pc = "bdelay"
     /\ secMain = SLEEP_TIME
     /\ secBatch = SLEEP_TIME
     /\ secReq = <<SLEEP_TIME>>) =>
        \A k \in 1..Len(batch) : tstate[batch[k]] \notin Begun

\* The windows the claims call invalid: seconds missing, or seconds <= 1.
InvalidWindow(sr) == sr = <<>> \/ sr[1] <= 1

TaskFailed == \E j \in Tasks : tstate[j] \in FailStates

\* C7: once a task of a batch has raised, the batched call never returns a
\* list (partial or not), samples no further delay, takes no further task
\* from its iterator, and the exception is the one that reaches main.
C7_FailFastBatch ==
    /\ [](TaskFailed =>
            /\ pc \in {"bdelay", "bwait", "failed", "aborted"}
            /\ Len(results) < page
            /\ \A j \in Tasks : j > taken => tstate[j] = "none")
    /\ [][TaskFailed =>
            /\ bdelays' = bdelays
            /\ taken' = taken
            /\ batch' = batch
            /\ bresults' = bresults
            /\ results' = results]_vars
    /\ [](pc \in {"failed", "aborted"} => err \in FailStates)

\* A batch failed with partial results and unconsumed tasks left.
C7_Witness ==
    /\ pc = "failed"
    /\ err = "HTTPError"
    /\ taken < nlinks
    /\ \E j \in Tasks : tstate[j] = "done" /\ BatchOf(j) = BatchOf(taken)

\* Something has raised: the listing request, an extraction, a check of
\* seconds or a detail task.
Failure == err # "none" \/ TaskFailed

\* C8: once anything has raised, the run never takes another listing page,
\* sends no further listing request, and never writes the output; an
\* exception that reached main has ended it.
C8_PipelineFailFast ==
    /\ [](Failure => (writes = 0 /\ output = <<>>
                      /\ pc \in {"bdelay", "bwait", "failed", "aborted"}))
    /\ [](err # "none" => pc \in {"failed", "aborted"})
    /\ [][Failure => (Failure' /\ page' = page /\ writes' = writes
                      /\ linkCounts' = linkCounts
                      /\ pc' \notin {"pdelay", "listing"})]_vars

\* The first listing page went well, the second failed: the run is aborted
\* with nothing written.
C8_Witness ==
    /\ pc = "aborted"
    /\ page = 2
    /\ Len(results) = 1
    /\ writes = 0

Aggregating == pc \in {"write", "done"}

\* C9: the output is written at most once, and only after all listing pages
\* and their batches succeeded; once the aggregation has begun there is no
\* further delay or request and no way back.
C9_OutputOnceAtEnd ==
    /\ [](/\ writes <= 1
          /\ writes = 1 <=> pc = "done"
          /\ Aggregating =>
                /\ page = MaxPages
                /\ Len(results) = MaxPages
                /\ err = "none"
                /\ \A j \in Tasks : tstate[j] \in {"none", "done"})
    /\ [][Aggregating =>
            (Aggregating' /\ delays' = delays /\ fetches' = fetches
             /\ results' = results)]_vars
    /\ [][writes' # writes => (pc = "write" /\ pc' = "done")]_vars

\* The output has been written after a run with detail records.
C9_Witness ==
    /\ pc = "done"
    /\ writes = 1
    /\ delays > MaxPages

\* The records of pages 1..p in page order, each page in link order.
RECURSIVE ExpectedOutput(_)
ExpectedOutput(p) ==
    IF p = 0 THEN <<>>
    ELSE ExpectedOutput(p - 1) \o [j \in 1..linkCounts[p] |-> Record(p, j)]

\* C10: the written collection is the concatenation, in page order 1..N, of
\* the records of each page in the order of its links: one record per link.
C10_OutputIsConcatenation ==
    pc = "done" => output = ExpectedOutput(MaxPages)

\* A written collection with records of two pages, the first with two links.
C10_Witness ==
    /\ pc = "done"
    /\ linkCounts[1] >= 2
    /\ linkCounts[2] >= 1
    /\ Len(output) = linkCounts[1] + linkCounts[2]

\* C11: make_request fails with an HTTP status error whenever the response has
\* a non-success status: no non-success response is ever handed to
\* scrape_book_links as the content of a listing page.
C11_NonSuccessNeverReturned ==
    listingStatus # "error"

\* C12: execute_with_interval runs the listing pages one at a time in input
\* order with exactly one delay before each: page k+1 is taken only from the
\* loop head, when the results of pages 1..k are in and no detail task is in
\* flight; its listing request is sent only after its delay; every state has
\* at most the one page `page` in progress, and result k is that of page k.
C12_SequentialPages ==
    /\ [](/\ Len(results) \in {page - 1, page}
          /\ pc \in {"pdelay", "listing", "ebwi", "bdelay", "bwait"}
                => (pdelays = page /\ Len(results) = page - 1)
          /\ pc = "ewi" => (pdelays = page /\ Len(results) = page)
          /\ \A k \in 1..Len(results) :
                results[k] = [i \in 1..linkCounts[k] |-> Record(k, i)])
    /\ [][page' # page =>
            /\ pc = "ewi"
            /\ page' = page + 1
            /\ Len(results) = page
            /\ \A j \in Tasks : tstate[j] \notin Running
            /\ \/ pc' = "pdelay" /\ pdelays' = pdelays + 1
               \/ pc' = "failed" /\ err' = "ValueError" /\ pdelays' = pdelays]_vars
    /\ [][pdelays' # pdelays => page' = page + 1]_vars
    /\ [][(pc' = "listing" /\ pc # "listing") => pc = "pdelay"]_vars

\* The second page is in its detail batch after the first, with links, is
\* complete.
C12_Witness ==
    /\ page = 2
    /\ pc = "bwait"
    /\ Len(results) = 1
    /\ Len(results[1]) >= 2
    /\ pdelays = 2

\* C13: every task an orchestrator is given is consumed exactly once: no
\* detail task is ever started twice or ends more often than it started, a
\* returned batched call has started and finished each of its nlinks tasks
\* exactly once and no other, and a completed execute_with_interval has taken
\* each of the MaxPages listing tasks once.
C13_ConsumedExactlyOnce ==
    /\ \A j \in Tasks : nstart[j] <= 1 /\ nend[j] <= nstart[j]
    /\ CallReturned =>
          \A j \in Tasks :
             /\ nstart[j] = (IF j <= nlinks THEN 1 ELSE 0)
             /\ nend[j] = nstart[j]
    /\ pc \in {"write", "done"} =>
          (page = MaxPages /\ pdelays = MaxPages /\ Len(results) = MaxPages)

\* A batched call over three tasks in two batches has returned.
C13_Witness ==
    /\ CallReturned
    /\ nlinks = 3
    /\ batch_size = 2
    /\ \A j \in 1..3 : nend[j] = 1

\* C14: an orchestrator called with an invalid window (seconds <= 1) always
\* reports it: neither execute_batch_with_interval nor execute_with_interval
\* ever returns normally when its seconds is invalid.
C14_InvalidWindowAlwaysReported ==
    /\ CallReturned => ~InvalidWindow(<<secBatch>>)
    /\ pc \in {"write", "done"} => ~InvalidWindow(<<secMain>>)

\* C15: a request is attempted at most 1 + RETRIES times, all inside the one
\* client.get of its task; a retry changes nothing the pipeline sees; a task
\* that raised is never run again; and while a request has failed for good
\* the run writes nothing.
C15_RetriesOnlyInAdapter ==
    /\ [](/\ \A r \in Requests : tries[r] <= 1 + RETRIES
          /\ \A j \in Tasks : nstart[j] <= 1
          /\ (err = "HTTPError" \/ \E j \in Tasks : tstate[j] = "HTTPError")
                => (writes = 0 /\ pc \in {"bdelay", "bwait", "failed",
                                          "aborted"}))
    /\ [][(\E r \in Requests : tries[r] >= 1 /\ tries'[r] > tries[r]) =>
            UNCHANGED <<pc, err, tstate, tres, finishOrder, bresults, results,
                        nstart, nend, delays, fetches, writes, output>>]_vars
    /\ [][\A j \in Tasks : tstate[j] \in FailStates =>
                              tstate'[j] = tstate[j]]_vars

\* The output was written, with records, after a detail request of the last
\* page was retried.
C15_Witness ==
    /\ pc = "done"
    /\ retried
    /\ err = "none"
    /\ linkCounts[MaxPages] >= 1
    /\ Len(output) >= 1

\* C16 as stated: the delays sampled while the details of a page with
\* nlinks links are fetched number ceil(nlinks / batch_size).
C16_OneDelayPerBatch ==
    CallReturned => bdelays + tdelays = CeilDiv(nlinks, batch_size)

\* C16: execute_batch_with_interval samples one shared delay per batch,
\* ceil(nlinks / batch_size) in all, and every detail task samples one more
\* of its own in make_request(delay=True): ceil(nlinks / batch_size) + nlinks
\* delays for a page with nlinks links.
C16_BatchAndRequestDelays ==
    CallReturned =>
        /\ bdelays = CeilDiv(nlinks, batch_size)
        /\ tdelays = nlinks
        /\ bdelays + tdelays = CeilDiv(nlinks, batch_size) + nlinks

\* A page with four links fetched in two batches of two.
C16_Witness ==
    /\ CallReturned
    /\ nlinks = 4
    /\ batch_size = 2
    /\ bdelays = 2
    /\ tdelays = 4

\* C17 as stated: no task is ever cancelled.
C17_NoTaskCancelled ==
    \A j \in Tasks : tstate[j] # "cancelled"

\* C17: execute_batch_with_interval cancels nothing: when the exception of a
\* batch is raised the other tasks of the batch stay as they are and go on
\* while the exception travels up; the tasks still pending when it leaves
\* main are cancelled there, by asyncio.run, and nowhere else.
C17_CancelledOnlyAtRunEnd ==
    /\ []((\E j \in Tasks : tstate[j] = "cancelled") => pc = "aborted")
    /\ [][\A j \in Tasks :
            (tstate'[j] = "cancelled" /\ tstate[j] # "cancelled") =>
                (pc = "failed" /\ pc' = "aborted" /\ tstate[j] \in Running)]_vars
    /\ [][(pc = "bwait" /\ pc' = "failed") => tstate' = tstate]_vars

\* After the exception of its batch was raised a sibling task has finished
\* with its record.
C17_Witness ==
    /\ pc = "failed"
    /\ \E j, k \in Tasks :
          /\ finishOrder # <<>>
          /\ finishOrder[1] = j
          /\ tstate[j] \in FailStates
          /\ err = tstate[j]
          /\ tstate[k] = "done"
          /\ \E i \in 2..Len(finishOrder) : finishOrder[i] = k

\* C18: with batch_size >= 1 and a valid window, when every delay elapses
\* and every task ends, execute_batch_with_interval eventually returns or
\* raises, and so does execute_with_interval.
C18_Terminates ==
    /\ (pc = "ebwi" /\ batch_size >= 1 /\ secBatch > 1)
          ~> (pc \in {"ewi", "failed"})
    /\ (pc = "ewi" /\ page = 0 /\ batch_size >= 1 /\ secMain > 1)
          ~> (pc \in {"write", "failed"})

\* execute_with_interval has returned after batched calls over two batches
\* with valid windows.
C18_Witness ==
    /\ pc = "write"
    /\ secMain > 1
    /\ secBatch > 1
    /\ bdelays = 2
    /\ Len(results[MaxPages]) > batch_size

\* The batched call of the current page is running.
InBatchedCall == pc \in {"ebwi", "bdelay", "bwait"}

\* C19: with batch_size <= 0 and a valid window execute_batch_with_interval
\* never takes a task, never returns and never raises: every pass of its
\* loop samples a delay for an empty batch, awaits the empty gather and is
\* back at the loop head, whatever the input.
C19_NonPositiveBatchSpins ==
    /\ []((batch_size <= 0 /\ secBatch > 1) =>
            /\ results = <<>>
            /\ taken = 0
            /\ batch = <<>>
            /\ bresults = <<>>
            /\ \A j \in Tasks : tstate[j] = "none"
            /\ page >= 1 /\ Len(linkCounts) = page => InBatchedCall)
    /\ [][(batch_size <= 0 /\ secBatch > 1 /\ InBatchedCall) =>
            \/ pc = "ebwi" /\ pc' = "bdelay" /\ bdelays' = bdelays + 1
            \/ pc = "bdelay" /\ pc' = "bwait" /\ bdelays' = bdelays
            \/ pc = "bwait" /\ pc' = "ebwi" /\ bdelays' = bdelays]_vars

\* A call over two tasks with batch_size 0 is back at its loop head after
\* MaxSpins delays.
C19_Witness ==
    /\ batch_size = 0
    /\ secBatch > 1
    /\ nlinks = 2
    /\ pc = "ebwi"
    /\ bdelays = MaxSpins

\* The windows are valid (seconds > 1), that of make_request being the
\* SLEEP_TIME default where the monolithic get_book_data passes none.
ValidWindows ==
    /\ secMain > 1
    /\ secBatch > 1
    /\ IF secReq = <<>> THEN variant = "monolithic" ELSE secReq[1] > 1

\* The first task of the current batch that raised.
FirstFailed ==
    finishOrder[CHOOSE i \in 1..Len(finishOrder) :
                   /\ tstate[finishOrder[i]] \in FailStates
                   /\ \A h \in 1..(i - 1) :
                         tstate[finishOrder[h]] \notin FailStates]

\* C20: with batch_size >= 1 and valid windows the outcome of the
\* orchestrators and the number of their delays are one function of the
\* input and of the task outcomes, the same for the modular and for the
\* monolithic variant: a returned batched call gives the records of its
\* links in order after ceil(nlinks / batch_size) delays; a raised one gives
\* the exception of the first task that raised, after the delays of the
\* batches up to that task's and with nothing taken beyond that batch;
\* execute_with_interval has sampled one delay per page taken and never
\* raises of its own.
C20_VariantsAgree ==
    [](ValidWindows =>
        /\ pdelays = page
        /\ err # "ValueError"
        /\ CallReturned =>
              /\ results[page] = [i \in 1..nlinks |-> Record(page, i)]
              /\ bdelays = CeilDiv(nlinks, batch_size)
        /\ (pc \in {"failed", "aborted"} /\ Len(linkCounts) = page) =>
              /\ TaskFailed
              /\ err = tstate[FirstFailed]
              /\ bdelays = BatchOf(FirstFailed)
              /\ taken = Min(nlinks, batch_size * BatchOf(FirstFailed))
              /\ Len(results) = page - 1
        /\ pc = "done" => output = Flatten(results))

\* The monolithic batched call has raised the exception of a task of its
\* second batch.
C20_Witness ==
    /\ variant = "monolithic"
    /\ ValidWindows
    /\ pc = "failed"
    /\ Len(linkCounts) = page
    /\ bdelays = 2
    /\ err = "HTTPError"

====
